---- MODULE Spec2Model ----
(***************************************************************************)
(* Weather-driven energy simulation engine of GreenGrid                    *)
(* (src/src/utils/weatherBasedEnergyData.ts, class                         *)
(* WeatherBasedEnergySimulator) and the React hook that drives it          *)
(* (src/unnamed/part_004, useEnergyData).                                  *)
(*                                                                         *)
(* Number representation (the source uses IEEE doubles):                   *)
(*   battery levels and optimal charge : thousandths of a percent          *)
(*                                       (60 % = 60000)                    *)
(*   power (kW) and energy balance     : ten-thousandths of a kW           *)
(*                                       (50 kW = 500000)                  *)
(*   efficiencies and multipliers      : ten-thousandths (1.0 = 10000)     *)
(*   weather readings                  : tenths (30.0 degrees = 300)       *)
(***************************************************************************)
EXTENDS Integers, Sequences, FiniteSets, TLC

VARIABLES
    batteryLevel,   \* this.batteryLevel, the persistent field (line 563)
    returned,       \* value returned by the last calculateBatteryLevel call
    call,           \* arguments and pre-state of the last calculateBatteryLevel call
    optInRange,     \* every optimalLevel passed so far was within [5,100] %
    predArgs,       \* arguments of a direct predictEnergyEfficiency call, and the month
    predOut,        \* the EnergyPrediction that call returned
    synthArgs,      \* hour, month and draws of a generateRealisticWeatherData call
    synthOut,       \* the WeatherData that call returned
    recArgs,        \* arguments of a direct generateSmartRecommendations call
    recOut,         \* the hour and mode of that call and the list it returned
    mode,           \* this.mode (line 40)
    result,         \* the object the last generateEnhancedEnergyData call returned
    ticks,          \* number of generateEnhancedEnergyData calls made so far
    thrown,         \* what went wrong inside the last generateEnhancedEnergyData call
    hook,           \* the state of one useEnergyData instance and its effects
    tasks,          \* callbacks the event loop has queued for that instance
    applied,        \* history: the generateEnhancedEnergyData calls made by the hook
    service,        \* the fields of the WebSocketService singleton
    sockets,        \* the WebSocket objects created so far, in order of creation
    timers,         \* pending reconnect timeouts and running heartbeat intervals
    emitted         \* the last connection_status event; whether the last heartbeat was sent

batVars == <<batteryLevel, returned, call, optInRange>>

predVars == <<predArgs, predOut>>

synthVars == <<synthArgs, synthOut>>

recVars == <<recArgs, recOut>>

engVars == <<mode, result, ticks, thrown>>

hookVars == <<hook, tasks, applied>>

wsVars == <<service, sockets, timers, emitted>>

vars == <<batteryLevel, returned, call, optInRange, predArgs, predOut, synthArgs, synthOut,
          recArgs, recOut, mode, result, ticks, thrown, hook, tasks, applied,
          service, sockets, timers, emitted>>

Min(a, b) == IF a < b THEN a ELSE b
Max(a, b) == IF a > b THEN a ELSE b
Abs(a) == IF a < 0 THEN -a ELSE a

Recommendations == {"charge_now", "discharge_now", "maintain", "prepare_for_peak"}

(***************************************************************************)
(* Seasons (lines 46-52, 72-78).                                           *)
(***************************************************************************)

Months == 1..12

Seasons == {"winter", "summer", "monsoon", "postMonsoon"}

\* solarBoost and heatLoad in ten-thousandths
rajashtanSeasonalFactors ==
    [winter      |-> [months |-> {12, 1, 2},   solarBoost |-> 9000,  heatLoad |-> 3000],
     summer      |-> [months |-> {3, 4, 5, 6}, solarBoost |-> 11000, heatLoad |-> 15000],
     monsoon     |-> [months |-> {7, 8, 9},    solarBoost |-> 6000,  heatLoad |-> 8000],
     postMonsoon |-> [months |-> {10, 11},     solarBoost |-> 10000, heatLoad |-> 9000]]

getCurrentSeason(month) ==
    IF month \in rajashtanSeasonalFactors.winter.months THEN "winter"
    ELSE IF month \in rajashtanSeasonalFactors.summer.months THEN "summer"
    ELSE IF month \in rajashtanSeasonalFactors.monsoon.months THEN "monsoon"
    ELSE "postMonsoon"

(***************************************************************************)
(* Fixed-point arithmetic on ten-thousandths.                              *)
(***************************************************************************)

\* a * b for two ten-thousandths
Mul4(a, b) == (a * b) \div 10000

RECURSIVE SqrtSearch(_, _, _)
\* the largest r in lo..hi with r*r <= n
SqrtSearch(n, lo, hi) ==
    IF lo >= hi THEN lo
    ELSE LET mid == (lo + hi + 1) \div 2
         IN  IF mid * mid <= n THEN SqrtSearch(n, mid, hi)
             ELSE SqrtSearch(n, lo, mid - 1)

\* Math.pow(x, 1.5) = x * sqrt(x) for x >= 0 in ten-thousandths
Pow15(x) == (x * SqrtSearch(x * 10000, 0, 46000)) \div 10000

\* Math.round(n / d) for d > 0: the nearest integer, halves rounded up
Round(n, d) == (2 * n + d) \div (2 * d)

\* Math.sin(k / 12 * Math.PI) in ten-thousandths, k a whole number of hours
SinHours(k) ==
    LET q == <<2588, 5000, 7071, 8660, 9659, 10000>>
        m == k % 24
    IN  IF m = 0 \/ m = 12 THEN 0
        ELSE IF m < 12 THEN (IF m <= 6 THEN q[m] ELSE q[12 - m])
        ELSE (IF m <= 18 THEN -q[m - 12] ELSE -q[24 - m])

(***************************************************************************)
(* Weather synthesis, lines 80-216.  Every Math.random() call is a draw in *)
(* ten-thousandths (0 .. 9999) supplied by the caller in the record d.     *)
(***************************************************************************)

Hours == 0..23

\* in tenths of a degree
getSeasonalBaseTemperature(season) ==
    CASE season = "winter" -> 180
      [] season = "summer" -> 350
      [] season = "monsoon" -> 280
      [] season = "postMonsoon" -> 250

\* in degrees
getTemperatureRange(season) ==
    CASE season = "winter" -> 8
      [] season = "summer" -> 12
      [] season = "monsoon" -> 6
      [] season = "postMonsoon" -> 9

\* getConditionForHour inside generateShortTermForecast (lines 168-176)
getConditionForHour(season, r) ==
    IF season = "monsoon" THEN (IF r < 4000 THEN "rainy" ELSE "cloudy")
    ELSE IF season = "summer" THEN (IF r < 7000 THEN "sunny" ELSE "dusty")
    ELSE (IF r < 6000 THEN "sunny" ELSE "partly_cloudy")

\* baseTemp + sin((hour - 6) / 12 * pi) * tempRange, rounded to a tenth
CurveTemperature(season, hour) ==
    Round(getSeasonalBaseTemperature(season) * 10000
            + SinHours(hour - 6) * getTemperatureRange(season) * 10, 10000)

\* mutant: the next24h temperature follows the daily curve like the other two
forecastNext24hTemperature_OnCurve(season, currentHour) ==
    CurveTemperature(season, currentHour + 24)

\* the next24h temperature (line 193): the seasonal base alone
forecastNext24hTemperature(season, currentHour) ==
    Round(getSeasonalBaseTemperature(season) * 10, 10)

\* generateShortTermForecast (lines 163-198)
generateShortTermForecast(currentHour, season, d) ==
    [next1h  |-> [condition   |-> getConditionForHour(season, d.c1),
                  temperature |-> CurveTemperature(season, currentHour + 1),
                  windSpeed   |-> Round(30000 + d.w1 * 5, 1000),
                  cloudCover  |-> Round(200000 + d.k1 * 40, 1000)],
     next6h  |-> [condition   |-> getConditionForHour(season, d.c6),
                  temperature |-> CurveTemperature(season, currentHour + 6),
                  windSpeed   |-> Round(40000 + d.w6 * 6, 1000),
                  cloudCover  |-> Round(100000 + d.k6 * 30, 1000)],
     next24h |-> [condition   |-> getConditionForHour(season, d.c24),
                  temperature |-> forecastNext24hTemperature(season, currentHour),
                  windSpeed   |-> Round(30000 + d.w24 * 7, 1000),
                  cloudCover  |-> Round(250000 + d.k24 * 35, 1000)]]

\* cloud cover in ten-thousandths of a percent, before rounding (lines 93-103)
RawCloudCover(season, r) ==
    IF season = "monsoon" THEN 600000 + r * 40
    ELSE IF season = "summer" THEN r * 30
    ELSE r * 50

\* the condition drawn for the season, before the night override (lines 93-103)
DrawnCondition(season, cloudCover, rain) ==
    IF season = "monsoon"
    THEN (IF rain < 3000 THEN "rainy"
          ELSE IF cloudCover > 800000 THEN "cloudy" ELSE "partly_cloudy")
    ELSE IF season = "summer"
         THEN (IF cloudCover < 100000 THEN "sunny"
               ELSE IF cloudCover < 200000 THEN "partly_cloudy" ELSE "dusty")
         ELSE (IF cloudCover < 150000 THEN "sunny"
               ELSE IF cloudCover < 350000 THEN "partly_cloudy" ELSE "cloudy")

\* mutant: the night override uses the daytime window of getDaytimeFactor
NightCondition_Until18(hour, condition) ==
    IF hour < 6 \/ hour > 18 THEN "clear_night" ELSE condition

\* mutant: the night override starts one hour late in the evening
NightCondition_After20(hour, condition) ==
    IF hour < 6 \/ hour > 20 THEN "clear_night" ELSE condition

\* the night override (lines 105-107)
NightCondition(hour, condition) ==
    IF hour < 6 \/ hour > 19 THEN "clear_night" ELSE condition

\* generateRealisticWeatherData (lines 80-143)
generateRealisticWeatherData(hour, season, d) ==
    LET temperature == getSeasonalBaseTemperature(season) * 10000
                         + SinHours(hour - 6) * getTemperatureRange(season) * 10
                         + (d.jitter - 5000) * 30
        cloudCover == RawCloudCover(season, d.cloud)
        condition == NightCondition(hour, DrawnCondition(season, cloudCover, d.rain))
        windSpeed == IF season = "summer" THEN 30000 + d.wind * 8
                     ELSE 20000 + d.wind * 5
        humidity == IF season = "monsoon" THEN 700000 + d.humidity * 25
                    ELSE IF season = "summer" THEN 200000 + d.humidity * 30
                    ELSE 400000 + d.humidity * 35
        uvIndex == IF condition = "sunny"
                   THEN Min(110000, 60000 + SinHours(hour - 6) * 5)
                   ELSE IF condition = "partly_cloudy"
                        THEN Min(80000, 40000 + SinHours(hour - 6) * 3)
                        ELSE 20000
        visibility == IF condition = "dusty" THEN 20000 + d.visibility * 3
                      ELSE IF condition = "rainy" THEN 10000 + d.visibility * 2
                      ELSE 80000 + d.visibility * 7
    IN  [condition   |-> condition,
         temperature |-> Round(temperature, 10000),
         humidity    |-> Round(humidity, 1000),
         windSpeed   |-> Round(windSpeed, 1000),
         cloudCover  |-> Round(cloudCover, 1000),
         uvIndex     |-> Round(uvIndex, 1000),
         visibility  |-> Round(visibility, 1000),
         forecast    |-> generateShortTermForecast(hour, season, d)]

\* generateIoTSensorData (lines 200-216): the fields the engine reads;
\* windTurbineRPM, batteryVoltage, inverterEfficiency and loadPowerFactor are
\* random readings nothing else uses
generateIoTSensorData(weather, d) ==
    [panelTemperature |-> weather.temperature + 150 + weather.uvIndex * 2,
     panelTilt        |-> 30,
     ambientLight     |->
        IF weather.condition = "sunny" THEN 80000 + Round(d.light * 2, 1)
        ELSE IF weather.condition = "partly_cloudy" THEN 40000 + Round(d.light * 3, 1)
        ELSE IF weather.condition = "cloudy" THEN Round(100000 + d.light * 15, 10)
        ELSE 500]

(***************************************************************************)
(* predictEnergyEfficiency and its helpers, lines 218-418.                 *)
(***************************************************************************)

Missing == [absent |-> TRUE]   \* an absent (undefined) object
NoIoT == [absent |-> TRUE]     \* iotData not passed (undefined)

\* solar efficiency of a reading before the IoT adjustments and the clamp
\* (lines 223-240); uvIndex and visibility factors are given by the caller
SolarFactor(cloudCover, temperature) ==
    Mul4(10 * (1000 - cloudCover),
         Max(7000, 10000 - Max(0, temperature - 250) * 4))

\* wind efficiency before the clamp (lines 256-269, 369-377)
WindFactor(windSpeed, temperature) ==
    Mul4(IF windSpeed < 30 THEN 1000
         ELSE IF windSpeed > 150 THEN 3000
         ELSE Min(10000, (windSpeed * windSpeed * 10000) \div 14400),
         10000 + (250 - temperature) * 5)

\* load multiplier from temperature (lines 272-281, 380-385)
LoadFactor(temperature, heatLoad) ==
    IF temperature > 300
    THEN 10000 + Mul4(Pow15((temperature - 300) * 100), heatLoad)
    ELSE IF temperature < 150
         THEN 10000 + ((150 - temperature) * heatLoad) \div 100
         ELSE 10000

Clamp01(x) == Max(0, Min(10000, x))

ClampLoad(x) == Max(3000, Min(25000, x))

\* calculateSimplifiedEfficiency (lines 352-392)
calculateSimplifiedEfficiency(forecastData, season) ==
    LET seasonData == rajashtanSeasonalFactors[season]
        solarEfficiency == Mul4(SolarFactor(forecastData.cloudCover, forecastData.temperature),
                                seasonData.solarBoost)
        windEfficiency == WindFactor(forecastData.windSpeed, forecastData.temperature)
        loadMultiplier == LoadFactor(forecastData.temperature, seasonData.heatLoad)
    IN  [solarEff |-> Clamp01(solarEfficiency),
         windEff  |-> Clamp01(windEfficiency),
         loadMult |-> ClampLoad(loadMultiplier)]

\* mutant: the poor-generation branch is missing
OptimalFromAverages_NoGenerationBranch(avgFutureGeneration, avgFutureLoad) ==
    IF avgFutureLoad > 13000
    THEN Min(90000, 60000 + (avgFutureLoad - 10000) * 3)
    ELSE Max(40000, Min(80000, 60000 + (avgFutureGeneration - avgFutureLoad) * 2))

\* the three-branch rule of calculateOptimalBatteryLevel (lines 333-344),
\* result in thousandths of a percent
OptimalFromAverages(avgFutureGeneration, avgFutureLoad) ==
    IF avgFutureGeneration < 4000
    THEN Min(95000, 70000 + ((10000 - avgFutureGeneration) * 25) \div 10)
    ELSE IF avgFutureLoad > 13000
         THEN Min(90000, 60000 + (avgFutureLoad - 10000) * 3)
         ELSE Max(40000, Min(80000, 60000 + (avgFutureGeneration - avgFutureLoad) * 2))

\* mutant: a missing horizon yields 70 % instead of the default
calculateOptimalBatteryLevel_HorizonDefault70(weather, season) ==
    IF weather.forecast = Missing THEN 60000
    ELSE IF \E h \in {"next1h", "next6h", "next24h"} : weather.forecast[h] = Missing
         THEN 70000
         ELSE LET e1 == calculateSimplifiedEfficiency(weather.forecast.next1h, season)
                  e2 == calculateSimplifiedEfficiency(weather.forecast.next6h, season)
                  e3 == calculateSimplifiedEfficiency(weather.forecast.next24h, season)
                  avgFutureGeneration ==
                      ((e1.solarEff + e1.windEff) \div 2 + (e2.solarEff + e2.windEff) \div 2
                       + (e3.solarEff + e3.windEff) \div 2) \div 3
                  avgFutureLoad == (e1.loadMult + e2.loadMult + e3.loadMult) \div 3
              IN  OptimalFromAverages(avgFutureGeneration, avgFutureLoad)

\* calculateOptimalBatteryLevel (lines 308-349); reading a field of an absent
\* horizon throws a TypeError, which the catch block turns into 60
calculateOptimalBatteryLevel(weather, season) ==
    IF weather.forecast = Missing THEN 60000
    ELSE IF \E h \in {"next1h", "next6h", "next24h"} : weather.forecast[h] = Missing
         THEN 60000
         ELSE LET e1 == calculateSimplifiedEfficiency(weather.forecast.next1h, season)
                  e2 == calculateSimplifiedEfficiency(weather.forecast.next6h, season)
                  e3 == calculateSimplifiedEfficiency(weather.forecast.next24h, season)
                  avgFutureGeneration ==
                      ((e1.solarEff + e1.windEff) \div 2 + (e2.solarEff + e2.windEff) \div 2
                       + (e3.solarEff + e3.windEff) \div 2) \div 3
                  avgFutureLoad == (e1.loadMult + e2.loadMult + e3.loadMult) \div 3
              IN  OptimalFromAverages(avgFutureGeneration, avgFutureLoad)

\* generateActionRecommendation (lines 394-418); totalRenewableEff is
\* (solarEff + windEff) / 2, so each test is stated on solarEff + windEff
generateActionRecommendation(solarEff, windEff, loadMult) ==
    IF solarEff + windEff > 14000 /\ loadMult < 12000 THEN "charge_now"
    ELSE IF solarEff + windEff < 6000 \/ loadMult > 15000 THEN "prepare_for_peak"
    ELSE IF (solarEff + windEff) * 10 < loadMult * 12 THEN "discharge_now"
    ELSE "maintain"

\* mutant: the prediction is returned with the raw, unclamped values
predictionRecord_Raw(solarEfficiency, windEfficiency, loadMultiplier, batteryOptimalCharge, recommendation) ==
    [solarEfficiency      |-> solarEfficiency,
     windEfficiency       |-> windEfficiency,
     loadMultiplier       |-> loadMultiplier,
     batteryOptimalCharge |-> batteryOptimalCharge,
     recommendation       |-> recommendation]

\* the object predictEnergyEfficiency returns (lines 299-305)
predictionRecord(solarEfficiency, windEfficiency, loadMultiplier, batteryOptimalCharge, recommendation) ==
    [solarEfficiency      |-> Clamp01(solarEfficiency),
     windEfficiency       |-> Clamp01(windEfficiency),
     loadMultiplier       |-> ClampLoad(loadMultiplier),
     batteryOptimalCharge |-> batteryOptimalCharge,
     recommendation       |-> recommendation]

\* predictEnergyEfficiency (lines 218-306)
predictEnergyEfficiency(weather, iotData, season) ==
    LET seasonData == rajashtanSeasonalFactors[season]
        s1 == SolarFactor(weather.cloudCover, weather.temperature)
        s2 == Mul4(s1, Min(10000, weather.uvIndex * 125))
        s3 == Mul4(s2, Min(10000, weather.visibility * 100))
        s4 == Mul4(s3, seasonData.solarBoost)
        s5 == IF iotData # NoIoT /\ iotData.panelTemperature > 600
              THEN Mul4(s4, 9000) ELSE s4
        solarEfficiency == IF iotData # NoIoT /\ iotData.ambientLight < 20000
                           THEN Mul4(s5, 8000) ELSE s5
        windEfficiency == WindFactor(weather.windSpeed, weather.temperature)
        l1 == LoadFactor(weather.temperature, seasonData.heatLoad)
        loadMultiplier == IF weather.humidity > 700
                          THEN Mul4(l1, 10000 + (weather.humidity - 700) * 5)
                          ELSE l1
        batteryOptimalCharge == calculateOptimalBatteryLevel(weather, season)
        recommendation == generateActionRecommendation(solarEfficiency, windEfficiency,
                                                       loadMultiplier)
    IN  predictionRecord(solarEfficiency, windEfficiency, loadMultiplier,
                         batteryOptimalCharge, recommendation)

(***************************************************************************)
(* calculateBatteryLevel, lines 565-605.                                   *)
(***************************************************************************)

\* chargeRate = 2 %/hour and dischargeRate = 1.5 %/hour, in thousandths of a percent
chargeRate == 2000
dischargeRate == 1500

\* energyBalance * (k/100) expressed in thousandths of a percent:
\* (b/10000 kW) * (k/100) % = b*k/1000 thousandths of a percent
BalanceTimes(b, k) == (b * k) \div 1000

\* mutant: charges on any surplus, whatever the optimal level
caseChargeNow_NoTargetGuard(level, energyBalance, optimalLevel) ==
    IF energyBalance > 0
    THEN level + Min(chargeRate, BalanceTimes(energyBalance, 10))
    ELSE level

\* mutant: the charge ceiling is 3 %/tick instead of chargeRate
caseChargeNow_Rate3(level, energyBalance, optimalLevel) ==
    IF energyBalance > 0 /\ level < optimalLevel
    THEN level + Min(3000, BalanceTimes(energyBalance, 10))
    ELSE level

\* case 'charge_now' (lines 574-578)
caseChargeNow(level, energyBalance, optimalLevel) ==
    IF energyBalance > 0 /\ level < optimalLevel
    THEN level + Min(chargeRate, BalanceTimes(energyBalance, 10))
    ELSE level

\* mutant: the discharge floor is 30 % instead of 20 %
caseDischargeNow_Floor30(level, energyBalance) ==
    IF energyBalance < 0 /\ level > 30000
    THEN level - Min(dischargeRate, BalanceTimes(Abs(energyBalance), 5))
    ELSE level

\* case 'discharge_now' (lines 580-584)
caseDischargeNow(level, energyBalance) ==
    IF energyBalance < 0 /\ level > 20000
    THEN level - Min(dischargeRate, BalanceTimes(Abs(energyBalance), 5))
    ELSE level

\* mutant: charges on any surplus instead of a surplus above 10 kW
casePrepareForPeak_AnySurplus(level, energyBalance) ==
    IF energyBalance > 0 /\ level < 90000
    THEN level + Min((chargeRate * 3) \div 2, BalanceTimes(energyBalance, 8))
    ELSE level

\* case 'prepare_for_peak' (lines 586-591)
casePrepareForPeak(level, energyBalance) ==
    IF energyBalance > 10 * 10000 /\ level < 90000
    THEN level + Min((chargeRate * 3) \div 2, BalanceTimes(energyBalance, 8))
    ELSE level

\* mutant: the discharge branch uses the charge branch's level guard
caseMaintain_WrongGuard(level, energyBalance) ==
    IF energyBalance > 20 * 10000 /\ level < 80000
    THEN level + Min(1000, BalanceTimes(energyBalance, 3))
    ELSE IF energyBalance < -(20 * 10000) /\ level < 80000
         THEN level - Min(1000, BalanceTimes(Abs(energyBalance), 2))
         ELSE level

\* case 'maintain' and default (lines 593-601)
caseMaintain(level, energyBalance) ==
    IF energyBalance > 20 * 10000 /\ level < 80000
    THEN level + Min(1000, BalanceTimes(energyBalance, 3))
    ELSE IF energyBalance < -(20 * 10000) /\ level > 30000
         THEN level - Min(1000, BalanceTimes(Abs(energyBalance), 2))
         ELSE level

\* the value of this.batteryLevel after the switch statement (lines 573-602)
batteryLevelAfter(level, energyBalance, optimalLevel, recommendation) ==
    CASE recommendation = "charge_now" -> caseChargeNow(level, energyBalance, optimalLevel)
      [] recommendation = "discharge_now" -> caseDischargeNow(level, energyBalance)
      [] recommendation = "prepare_for_peak" -> casePrepareForPeak(level, energyBalance)
      [] OTHER -> caseMaintain(level, energyBalance)

\* mutant: the return statement without the upper clamp
calculateBatteryLevel_NoUpperClamp(level) == Max(5000, level)

\* the value calculateBatteryLevel returns (line 604), given the stored level
calculateBatteryLevel(level) == Max(5000, Min(100000, level))

(***************************************************************************)
(* Direct calls of the battery update step with arbitrary arguments.       *)
(***************************************************************************)

\* energy balances handed to the step, in ten-thousandths of a kW:
\* 0, +-5, +-10, +-20, +-50 kW around the guards and +-10000 kW
Balances == {-100000000, -500000, -200000, 0, 50000, 100000, 500000, 100000000}

\* optimal charge levels handed to the step, in thousandths of a percent; the
\* Predictor's batteryOptimalCharge is 45, 60, 70 or 85, and 95 % bounds it
OptimalLevels == {5000, 80000, 95000, 100000, 120000}

NoCall == [pre |-> 60000, energyBalance |-> 0, optimalLevel |-> 60000,
           recommendation |-> "none"]

BatteryInit ==
    /\ batteryLevel = 60000
    /\ returned = 60000
    /\ call = NoCall
    /\ optInRange = TRUE

NoResult == [path |-> "none"]

\* the state new WeatherBasedEnergySimulator() leaves (lines 40, 54-58, 740)
EngineInit ==
    /\ mode = "online"
    /\ result = NoResult
    /\ ticks = 0
    /\ thrown = "none"

\* useEnergyData before it is mounted: the useState initial values
\* (part_004 lines 54-69), no interval, no request made; fetching says
\* whether a forecast or historical fetch is in flight; effectConnected is the
\* isWebSocketConnected value the polling effect (lines 242-256) last ran with
NotMounted ==
    [mounted |-> FALSE, autoRefresh |-> FALSE, isWebSocketConnected |-> FALSE,
     effectConnected |-> FALSE, interval |-> FALSE, systemMode |-> "online", battery_soc_percent |-> -1,
     isLoading |-> TRUE, fetching |-> FALSE, requested |-> 0]

HookIdle == hook = NotMounted /\ tasks = <<>> /\ applied = <<>>

NoSample == [absent |-> TRUE]
NoSynthArgs == [absent |-> TRUE]

\* no direct generateRealisticWeatherData call is being followed
SynthIdle == synthArgs = NoSynthArgs /\ synthOut = NoSample

\* no direct generateSmartRecommendations call was made
NoRecArgs == [absent |-> TRUE]

NoList == [absent |-> TRUE]

RecommendIdle == recArgs = NoRecArgs /\ recOut = NoList

\* config.maxReconnectAttempts (websocketService.ts line 39)
maxReconnectAttempts == 10

\* no connection_status event was emitted yet
NoStatus == [connected |-> FALSE, by |-> 0]

\* the fields of WebSocketService after the constructor (websocketService.ts
\* lines 29-43), with 0 for null: no socket, no timer, no event
ServiceInit ==
    /\ service = [ws |-> 0, reconnectAttempts |-> 0, reconnectTimer |-> 0,
                  heartbeatTimer |-> 0, isIntentionalDisconnect |-> FALSE,
                  maxReconnectAttempts |-> maxReconnectAttempts]
    /\ sockets = <<>>
    /\ timers = [timeouts |-> {}, intervals |-> {}]
    /\ emitted = [status |-> NoStatus, beat |-> FALSE]

\* one call of calculateBatteryLevel(energyBalance, optimalLevel, recommendation)
Advance ==
    \E energyBalance \in Balances, optimalLevel \in OptimalLevels,
       recommendation \in Recommendations :
        /\ batteryLevel' = batteryLevelAfter(batteryLevel, energyBalance,
                                             optimalLevel, recommendation)
        /\ returned' = calculateBatteryLevel(batteryLevel')
        /\ call' = [pre |-> batteryLevel, energyBalance |-> energyBalance,
                    optimalLevel |-> optimalLevel, recommendation |-> recommendation]
        /\ optInRange' = (optInRange /\ optimalLevel \in 5000..100000)
        /\ UNCHANGED <<predVars, synthVars, recVars, engVars, hookVars, wsVars>>

(***************************************************************************)
(* generateEnhancedEnergyData, lines 420-561.                              *)
(***************************************************************************)

\* mutant: the gate closes an hour late
getDaytimeFactor_After19(hour) ==
    IF hour < 6 \/ hour > 19 THEN 0 ELSE SinHours(hour - 6)

\* getDaytimeFactor (lines 547-550), in ten-thousandths
getDaytimeFactor(hour) ==
    IF hour < 6 \/ hour > 18 THEN 0 ELSE SinHours(hour - 6)

\* in tenths
getLoadPattern(hour) ==
    IF hour < 5 THEN 4
    ELSE IF hour < 8 THEN 6
    ELSE IF hour < 12 THEN 8
    ELSE IF hour < 16 THEN 12
    ELSE IF hour < 20 THEN 10
    ELSE IF hour < 23 THEN 7
    ELSE 5

ForecastEntry(condition, temperature, windSpeed, cloudCover) ==
    [condition |-> condition, temperature |-> temperature,
     windSpeed |-> windSpeed, cloudCover |-> cloudCover]

\* the forecast of the fallback sample (lines 510-514)
fallbackForecast ==
    [next1h  |-> ForecastEntry("sunny", 300, 50, 200),
     next6h  |-> ForecastEntry("sunny", 320, 60, 150),
     next24h |-> ForecastEntry("partly_cloudy", 280, 40, 300)]

\* mutant: the fallback sample is built without its forecast
fallbackWeatherData_NoForecast ==
    [condition |-> "sunny", temperature |-> 300, humidity |-> 500, windSpeed |-> 50,
     cloudCover |-> 200, uvIndex |-> 60, visibility |-> 100,
     forecast |-> Missing]

\* lines 502-515
fallbackWeatherData ==
    [condition |-> "sunny", temperature |-> 300, humidity |-> 500, windSpeed |-> 50,
     cloudCover |-> 200, uvIndex |-> 60, visibility |-> 100,
     forecast |-> fallbackForecast]

\* lines 517-523
fallbackPrediction ==
    [solarEfficiency |-> 8000, windEfficiency |-> 6000, loadMultiplier |-> 10000,
     batteryOptimalCharge |-> 60000, recommendation |-> "maintain"]

\* mutant: the fallback record reports the seed level 60 % instead of 65 %
fallbackEnergyData_Battery60(now) ==
    [timestamp |-> now, solar_gen_kW |-> 20000, wind_gen_kW |-> 6000,
     load_demand_kW |-> 18000, battery_soc_percent |-> 6000,
     grid_import_kW |-> 0, grid_export_kW |-> 8000, weather |-> "sunny",
     forecast |-> "Surplus", temperature |-> 300, carbon_saved_kg |-> 21320]

\* lines 526-538; kW, percent and kg in hundredths, as rounded by the code
fallbackEnergyData(now) ==
    [timestamp |-> now, solar_gen_kW |-> 20000, wind_gen_kW |-> 6000,
     load_demand_kW |-> 18000, battery_soc_percent |-> 6500,
     grid_import_kW |-> 0, grid_export_kW |-> 8000, weather |-> "sunny",
     forecast |-> "Surplus", temperature |-> 300, carbon_saved_kg |-> 21320]

\* what can go wrong before the battery update inside the try block:
\* the synthesizer throws, it returns a sample without forecast (line 437),
\* or the Predictor throws
Faults == {"none", "weather_throws", "no_forecast", "prediction_throws"}

\* mutant: the catch block stores the 65 % it reports
fallbackResult_StoresReported(level, theMode, now, d) ==
    [level |-> 65000,
     called |-> FALSE,
     energyBalance |-> 0,
     value |-> [path |-> "fallback",
                energyData |-> fallbackEnergyData(now),
                weatherData |-> fallbackWeatherData,
                prediction |-> fallbackPrediction,
                iotData |-> IF theMode = "offline"
                            THEN generateIoTSensorData(fallbackWeatherData, d)
                            ELSE NoIoT,
                mode |-> theMode]]

\* the catch block (lines 497-544)
fallbackResult(level, theMode, now, d) ==
    [level |-> level,
     called |-> FALSE,
     energyBalance |-> 0,
     value |-> [path |-> "fallback",
                energyData |-> fallbackEnergyData(now),
                weatherData |-> fallbackWeatherData,
                prediction |-> fallbackPrediction,
                iotData |-> IF theMode = "offline"
                            THEN generateIoTSensorData(fallbackWeatherData, d)
                            ELSE NoIoT,
                mode |-> theMode]]

\* mutant: the Predictor is called without the sensor sample in every mode
simulate_NoSensorFeed(theMode, now, d) ==
    LET season == getCurrentSeason(now.month)
        weatherData == generateRealisticWeatherData(now.hour, season, d)
        iotData == IF theMode = "offline" THEN generateIoTSensorData(weatherData, d)
                   ELSE NoIoT
        pred == predictEnergyEfficiency(weatherData, NoIoT, season)
        \* maxSolarCapacity = 300, maxWindCapacity = 100, baseLoad = 200 (kW)
        solar_gen_kW == (3 * pred.solarEfficiency * getDaytimeFactor(now.hour)) \div 100
        wind_gen_kW == 100 * pred.windEfficiency
        load_demand_kW == 20 * pred.loadMultiplier * getLoadPattern(now.hour)
    IN  [weatherData |-> weatherData,
         iotData |-> iotData,
         prediction |-> pred,
         solar_gen_kW |-> solar_gen_kW,
         wind_gen_kW |-> wind_gen_kW,
         load_demand_kW |-> load_demand_kW,
         totalGeneration |-> solar_gen_kW + wind_gen_kW,
         energyBalance |-> solar_gen_kW + wind_gen_kW - load_demand_kW]

\* lines 428-466 of the try block: everything computed before the battery
\* update, none of which reads the battery level
simulate(theMode, now, d) ==
    LET season == getCurrentSeason(now.month)
        weatherData == generateRealisticWeatherData(now.hour, season, d)
        iotData == IF theMode = "offline" THEN generateIoTSensorData(weatherData, d)
                   ELSE NoIoT
        pred == predictEnergyEfficiency(weatherData, iotData, season)
        \* maxSolarCapacity = 300, maxWindCapacity = 100, baseLoad = 200 (kW)
        solar_gen_kW == (3 * pred.solarEfficiency * getDaytimeFactor(now.hour)) \div 100
        wind_gen_kW == 100 * pred.windEfficiency
        load_demand_kW == 20 * pred.loadMultiplier * getLoadPattern(now.hour)
    IN  [weatherData |-> weatherData,
         iotData |-> iotData,
         prediction |-> pred,
         solar_gen_kW |-> solar_gen_kW,
         wind_gen_kW |-> wind_gen_kW,
         load_demand_kW |-> load_demand_kW,
         totalGeneration |-> solar_gen_kW + wind_gen_kW,
         energyBalance |-> solar_gen_kW + wind_gen_kW - load_demand_kW]

\* the draws of one call, all Math.random() results equal to r
UniformDraw(r) ==
    [jitter |-> r, cloud |-> r, rain |-> r, wind |-> r, humidity |-> r,
     visibility |-> r, light |-> r,
     c1 |-> r, w1 |-> r, k1 |-> r, c6 |-> r, w6 |-> r, k6 |-> r,
     c24 |-> r, w24 |-> r, k24 |-> r]

\* draws of the calls: all low, all middle, all high
EngineDraws == { UniformDraw(0), UniformDraw(5000), UniformDraw(9999) }

\* hours of the calls: night, noon, the hour after sunset
EngineHours == {3, 12, 19}

\* a summer month and a post-monsoon month
EngineMonths == {5, 10}

\* wall-clock readings of new Date(): hour of day and month
EngineClock == [hour : EngineHours, month : EngineMonths]

\* a clock reading and draws at which generation and demand nearly cancel
\* (post-monsoon afternoon: 32.1 degrees, 8.6 % clouds, 6.7 m/s wind)
NearBalanceClock == [hour |-> 14, month |-> 10]

NearBalanceDraw ==
    [UniformDraw(5000) EXCEPT !.jitter = 2682, !.cloud = 1723, !.wind = 9471,
                              !.humidity = 5037, !.visibility = 5166]

\* (new Date(), Math.random() results) of the calls
EngineInputs == (EngineClock \X EngineDraws) \cup { <<NearBalanceClock, NearBalanceDraw>> }

\* values passed to setMode: the two of SystemMode and one that is neither
ModeArgs == {"online", "offline", "hybrid"}

\* the (mode, clock, draws) triples the engine is driven with
SimulateInputs == { <<m, i[1], i[2]>> : m \in ModeArgs, i \in EngineInputs }

\* simulate on those inputs, evaluated once
SimulateTable ==
    [x \in SimulateInputs |-> simulate(x[1], x[2], x[3])] @@ <<>>

Simulated(theMode, now, d) ==
    IF <<theMode, now, d>> \in SimulateInputs
    THEN SimulateTable[<<theMode, now, d>>]
    ELSE simulate(theMode, now, d)

\* mutant: the import is what solar generation alone leaves uncovered
normalResult_ImportIgnoresWind(level, theMode, now, sim) ==
    LET newLevel == batteryLevelAfter(level, sim.energyBalance,
                                      sim.prediction.batteryOptimalCharge,
                                      sim.prediction.recommendation)
    IN  [level |-> newLevel,
         called |-> TRUE,
         energyBalance |-> sim.energyBalance,
         value |-> [path |-> "normal",
                    energyData |->
                      [timestamp |-> now,
                       solar_gen_kW |-> Round(sim.solar_gen_kW, 100),
                       wind_gen_kW |-> Round(sim.wind_gen_kW, 100),
                       load_demand_kW |-> Round(sim.load_demand_kW, 100),
                       battery_soc_percent |-> Round(calculateBatteryLevel(newLevel), 10),
                       grid_import_kW |-> Round(Max(0, sim.load_demand_kW - sim.solar_gen_kW), 100),
                       grid_export_kW |-> Round(Max(0, sim.energyBalance), 100),
                       weather |-> sim.weatherData.condition,
                       forecast |-> IF sim.energyBalance > 200000 THEN "Surplus"
                                    ELSE IF sim.energyBalance < -200000 THEN "Deficit"
                                    ELSE "Balanced",
                       temperature |-> sim.weatherData.temperature,
                       carbon_saved_kg |-> Round(sim.totalGeneration * 82, 10000)],
                    weatherData |-> sim.weatherData,
                    prediction |-> sim.prediction,
                    iotData |-> sim.iotData,
                    mode |-> theMode]]

\* the rest of the try block (lines 461-496) when nothing throws
normalResult(level, theMode, now, sim) ==
    LET newLevel == batteryLevelAfter(level, sim.energyBalance,
                                      sim.prediction.batteryOptimalCharge,
                                      sim.prediction.recommendation)
    IN  [level |-> newLevel,
         called |-> TRUE,
         energyBalance |-> sim.energyBalance,
         value |-> [path |-> "normal",
                    energyData |->
                      [timestamp |-> now,
                       solar_gen_kW |-> Round(sim.solar_gen_kW, 100),
                       wind_gen_kW |-> Round(sim.wind_gen_kW, 100),
                       load_demand_kW |-> Round(sim.load_demand_kW, 100),
                       battery_soc_percent |-> Round(calculateBatteryLevel(newLevel), 10),
                       grid_import_kW |-> Round(Max(0, -sim.energyBalance), 100),
                       grid_export_kW |-> Round(Max(0, sim.energyBalance), 100),
                       weather |-> sim.weatherData.condition,
                       forecast |-> IF sim.energyBalance > 200000 THEN "Surplus"
                                    ELSE IF sim.energyBalance < -200000 THEN "Deficit"
                                    ELSE "Balanced",
                       temperature |-> sim.weatherData.temperature,
                       carbon_saved_kg |-> Round(sim.totalGeneration * 82, 10000)],
                    weatherData |-> sim.weatherData,
                    prediction |-> sim.prediction,
                    iotData |-> sim.iotData,
                    mode |-> theMode]]

\* mutant: an exception in the try block reaches the caller (no catch)
generateEnhancedEnergyData_Rethrow(level, theMode, now, d, fault) ==
    IF fault = "none" THEN normalResult(level, theMode, now, Simulated(theMode, now, d))
    ELSE [level |-> level, called |-> FALSE, energyBalance |-> 0,
          value |-> [path |-> "thrown"]]

\* generateEnhancedEnergyData (lines 420-545): the new stored level, whether
\* calculateBatteryLevel was called, the balance it was given, and the value returned
generateEnhancedEnergyData(level, theMode, now, d, fault) ==
    IF fault = "none" THEN normalResult(level, theMode, now, Simulated(theMode, now, d))
    ELSE fallbackResult(level, theMode, now, d)

(***************************************************************************)
(* generateSmartRecommendations, lines 607-736.  An entry is its rule, its *)
(* priority and the number interpolated into its message or action; the   *)
(* default entry carries this.mode, which its message quotes.              *)
(***************************************************************************)

Entry(rule, priority, detail, weatherBased) ==
    [rule |-> rule, priority |-> priority, detail |-> detail,
     weatherBased |-> weatherBased]

Present(x) == x # Missing

\* mutant: the default entry is pushed whether or not another rule fired
DefaultEntryDue_Always(list) == TRUE

\* line 712
DefaultEntryDue(list) == Len(list) = 0

\* the rule whose condition throws a TypeError by reading a property of an
\* absent argument (0: none does); the rules are numbered in source order
ThrowingRule(energyData, weatherData, prediction) ==
    IF ~Present(weatherData) THEN 1
    ELSE IF /\ Present(weatherData.forecast)
            /\ Present(weatherData.forecast.next6h)
            /\ weatherData.forecast.next6h.cloudCover > 700
            /\ ~Present(energyData) THEN 1
    ELSE IF ~Present(prediction) THEN 3
    ELSE IF prediction.windEfficiency > 8000 /\ ~Present(energyData) THEN 3
    ELSE 0

\* what rule i pushes: its entry if the rule is reached and its condition holds
PushIf(i, throwing, cond, entry) ==
    IF (throwing = 0 \/ i < throwing) /\ cond THEN <<entry>> ELSE <<>>

generateSmartRecommendations(energyData, weatherData, prediction, currentHour, theMode) ==
    LET t == ThrowingRule(energyData, weatherData, prediction)
        pushed ==
            \* lines 623-633
            PushIf(1, t, /\ Present(weatherData.forecast)
                         /\ Present(weatherData.forecast.next6h)
                         /\ weatherData.forecast.next6h.cloudCover > 700
                         /\ energyData.battery_soc_percent < 6000,
                   Entry("heavy_clouds_6h", "high",
                         weatherData.forecast.next6h.cloudCover, TRUE))
            \* lines 635-645
            \o PushIf(2, t, /\ Present(weatherData.forecast)
                            /\ Present(weatherData.forecast.next24h)
                            /\ weatherData.forecast.next24h.temperature > 400
                            /\ currentHour < 12,
                      Entry("extreme_heat_tomorrow", "high",
                            weatherData.forecast.next24h.temperature, TRUE))
            \* lines 647-655
            \o PushIf(3, t, /\ prediction.windEfficiency > 8000
                            /\ energyData.battery_soc_percent * 10
                                 < prediction.batteryOptimalCharge,
                      Entry("excellent_wind", "medium", weatherData.windSpeed, TRUE))
            \* lines 657-665
            \o PushIf(4, t, /\ weatherData.condition = "dusty"
                            /\ prediction.solarEfficiency < 6000,
                      Entry("dust_storm", "medium", 0, TRUE))
            \* lines 668-698
            \o PushIf(5, t, prediction.recommendation = "charge_now",
                      Entry("optimal_charging_window", "medium", 0, TRUE))
            \o PushIf(6, t, prediction.recommendation = "prepare_for_peak",
                      Entry("high_load_approaching", "high",
                            prediction.batteryOptimalCharge, TRUE))
            \o PushIf(7, t, prediction.recommendation = "discharge_now",
                      Entry("low_renewable_generation", "medium", 0, TRUE))
            \* lines 701-709
            \o PushIf(8, t, /\ prediction.solarEfficiency < 3000
                            /\ currentHour >= 10 /\ currentHour <= 16,
                      Entry("solar_very_low", "high",
                            Round(prediction.solarEfficiency, 100), TRUE))
    IN  IF t # 0
        \* lines 722-735: the catch block keeps what was pushed
        THEN Append(pushed, Entry("safe_mode", "low", 0, FALSE))
        \* lines 712-720
        ELSE IF DefaultEntryDue(pushed)
        THEN Append(pushed, [rule |-> "running_efficiently", priority |-> "low",
                             detail |-> 0, weatherBased |-> TRUE, mode |-> theMode])
        ELSE pushed

(***************************************************************************)
(* Properties of the battery update step (checked under SpecBattery).      *)
(***************************************************************************)

\* C1: every value calculateBatteryLevel returns is within [5,100] %, for any
\* balance, any optimal charge and any recommendation, after any number of calls.
C1_ReturnedWithinBounds == returned >= 5000 /\ returned <= 100000

\* a charge_now call made at a stored level of 100 % or more reported exactly 100 %
C1_Witness ==
    /\ call.recommendation = "charge_now"
    /\ call.pre >= 100000
    /\ batteryLevel > 100000
    /\ returned = 100000

\* C2: the stored field batteryLevel is within [5,100] % in every state reached
\* from 60 % by calls whose optimal charge is within [5,100] %.
C2_StoredWithinBounds ==
    optInRange => (batteryLevel >= 5000 /\ batteryLevel <= 100000)

\* C6: under charge_now the stored level rises by exactly min(2, balance*0.1)
\* when balance > 0 and level < optimal, and is unchanged otherwise.
C6_ChargeNowStep ==
    /\ call.recommendation = "charge_now" =>
         batteryLevel =
           IF call.energyBalance > 0 /\ call.pre < call.optimalLevel
           THEN call.pre + Min(2000, call.energyBalance \div 100)
           ELSE call.pre
    /\ batteryLevelAfter(60000, 500000, 80000, "charge_now") = 62000

\* balance +50 kW, optimal 80 %, level 60 % gave 62 %
C6_Witness ==
    /\ call = [pre |-> 60000, energyBalance |-> 500000, optimalLevel |-> 80000,
               recommendation |-> "charge_now"]
    /\ batteryLevel = 62000

\* C7: under discharge_now the stored level falls by exactly
\* min(1.5, |balance|*0.05) when balance < 0 and level > 20, and is unchanged otherwise.
C7_DischargeNowStep ==
    /\ call.recommendation = "discharge_now" =>
         batteryLevel =
           IF call.energyBalance < 0 /\ call.pre > 20000
           THEN call.pre - Min(1500, Abs(call.energyBalance) \div 200)
           ELSE call.pre
    /\ batteryLevelAfter(25000, -400000, 60000, "discharge_now") = 23500

\* a deficit discharged the battery from 25 % to 23.5 %
C7_Witness ==
    /\ call.recommendation = "discharge_now"
    /\ call.energyBalance < 0
    /\ call.pre = 25000
    /\ batteryLevel = 23500

\* C8: under prepare_for_peak the stored level rises by exactly
\* min(3, balance*0.08) when balance > 10 and level < 90, is unchanged
\* otherwise, and never falls.
C8_PrepareForPeakStep ==
    call.recommendation = "prepare_for_peak" =>
      /\ batteryLevel =
           IF call.energyBalance > 100000 /\ call.pre < 90000
           THEN call.pre + Min(3000, (call.energyBalance * 8) \div 1000)
           ELSE call.pre
      /\ batteryLevel >= call.pre

\* a surplus above 10 kW charged the battery by the 3 % ceiling
C8_Witness ==
    /\ call.recommendation = "prepare_for_peak"
    /\ call.energyBalance > 100000
    /\ call.pre < 90000
    /\ batteryLevel = call.pre + 3000

\* C9: under maintain the stored level rises by min(1, balance*0.03) when
\* balance > 20 and level < 80, falls by min(1, |balance|*0.02) when
\* balance < -20 and level > 30, and is unchanged for balances in [-20,20]
\* and for levels outside those guards.
C9_MaintainStep ==
    call.recommendation = "maintain" =>
      batteryLevel =
        IF call.energyBalance > 200000 /\ call.pre < 80000
        THEN call.pre + Min(1000, (call.energyBalance * 3) \div 1000)
        ELSE IF call.energyBalance < -200000 /\ call.pre > 30000
             THEN call.pre - Min(1000, (Abs(call.energyBalance) * 2) \div 1000)
             ELSE call.pre

\* a deficit below -20 kW at a level of 80 % or more discharged the battery
C9_Witness ==
    /\ call.recommendation = "maintain"
    /\ call.energyBalance < -200000
    /\ call.pre >= 80000
    /\ batteryLevel = call.pre - 1000

\* C25: starting from 60 %, as long as every call carries an optimal level
\* within [40,95] % the stored level stays strictly between 18.5 % and 97 %:
\* a call made at a level inside that interval leaves it inside, so the clamp
\* of the return statement changes nothing and the returned value, which the
\* record rounds to two decimals, is the stored level.
C25_EngineDrivenLevelStaysInside ==
    /\ 18500 < batteryLevel /\ batteryLevel < 97000
    /\ [][(/\ call'.optimalLevel \in 40000..95000
           /\ 18500 < batteryLevel /\ batteryLevel < 97000)
          => /\ 18500 < batteryLevel' /\ batteryLevel' < 97000
             /\ returned' = batteryLevel'
             /\ Round(returned', 10) = Round(batteryLevel', 10)]_vars

\* charge_now towards an optimal level of 95 % took the level from just below
\* 95 % to just below 97 %
C25_Witness ==
    /\ call.recommendation = "charge_now"
    /\ call.optimalLevel = 95000
    /\ call.pre > 94000 /\ call.pre < 95000
    /\ batteryLevel = call.pre + 2000
    /\ returned = batteryLevel

\* C26 as stated: a charge_now step never raises the level above the optimal
\* level: the level after the step is at most max(level before, optimal).
C26_ChargeNowNeverAboveOptimal ==
    call.recommendation = "charge_now" =>
        batteryLevel <= Max(call.pre, call.optimalLevel)

\* C26, amended: a charge_now step never raises the level to more than 2 %
\* above the optimal level: the level after the step is at most
\* max(level before, optimal + 2).
C26_ChargeNowOvershootAtMostRate ==
    call.recommendation = "charge_now" =>
        batteryLevel <= Max(call.pre, call.optimalLevel + 2000)

\* a charge_now step that started below the optimal level ended above it
C26_Witness ==
    /\ call.recommendation = "charge_now"
    /\ call.pre < call.optimalLevel
    /\ batteryLevel > call.optimalLevel
    /\ batteryLevel = call.pre + 2000

(***************************************************************************)
(* The Predictor as a function of its arguments: predictEnergyEfficiency   *)
(* is public and derives its result from the weather sample, the optional  *)
(* sensor sample and the calendar month alone.                             *)
(***************************************************************************)

\* forecasts handed to the Predictor: the fallback one, an overcast calm one,
\* a hot one, a cool windy clear one, one with an absent horizon, and none
PredictForecasts ==
    { fallbackForecast,
      [next1h  |-> ForecastEntry("cloudy", 280, 20, 950),
       next6h  |-> ForecastEntry("rainy", 260, 25, 1000),
       next24h |-> ForecastEntry("cloudy", 270, 20, 900)],
      [next1h  |-> ForecastEntry("sunny", 450, 80, 200),
       next6h  |-> ForecastEntry("dusty", 470, 100, 100),
       next24h |-> ForecastEntry("sunny", 440, 90, 250)],
      [next1h  |-> ForecastEntry("sunny", 100, 130, 0),
       next6h  |-> ForecastEntry("sunny", 200, 120, 0),
       next24h |-> ForecastEntry("sunny", 180, 140, 50)],
      [next1h  |-> ForecastEntry("sunny", 300, 50, 200),
       next6h  |-> Missing,
       next24h |-> ForecastEntry("sunny", 280, 40, 300)],
      [next1h  |-> Missing,
       next6h  |-> ForecastEntry("sunny", 320, 60, 150),
       next24h |-> ForecastEntry("sunny", 280, 40, 300)],
      [next1h  |-> ForecastEntry("sunny", 300, 50, 200),
       next6h  |-> ForecastEntry("sunny", 320, 60, 150),
       next24h |-> Missing],
      Missing }

PredictTemperatures == {-50, 100, 200, 250, 310, 380, 600}
PredictHumidities == {300, 900}
PredictWindSpeeds == {20, 30, 70, 130, 200}
PredictCloudCovers == {0, 50, 1000}
PredictUvIndexes == {20, 110}
PredictVisibilities == {30, 120}

PredictWeather ==
    { [condition |-> "sunny", temperature |-> t, humidity |-> h, windSpeed |-> w,
       cloudCover |-> c, uvIndex |-> u, visibility |-> v, forecast |-> f] :
        t \in PredictTemperatures, h \in PredictHumidities, w \in PredictWindSpeeds,
        c \in PredictCloudCovers, u \in PredictUvIndexes, v \in PredictVisibilities,
        f \in PredictForecasts }

\* sensor samples: none, a cool bright panel, a hot dim panel
PredictIoT ==
    { NoIoT,
      [panelTemperature |-> 450, panelTilt |-> 30, ambientLight |-> 80000],
      [panelTemperature |-> 650, panelTilt |-> 30, ambientLight |-> 500] }

\* one month of each season
PredictMonths == {1, 5, 8, 10}

NoPrediction == [absent |-> TRUE]
NoArgs == [absent |-> TRUE]

PredictIdle == predArgs = NoArgs /\ predOut = NoPrediction

InitPredict ==
    /\ BatteryInit
    /\ EngineInit
    /\ ServiceInit
    /\ HookIdle
    /\ SynthIdle
    /\ RecommendIdle
    /\ predArgs \in [weather : PredictWeather, iotData : PredictIoT, month : PredictMonths]
    /\ predOut = NoPrediction

\* predictEnergyEfficiency(weather, iotData) called in the given month
Predict ==
    /\ predArgs # NoArgs
    /\ predOut = NoPrediction
    /\ predOut' = predictEnergyEfficiency(predArgs.weather, predArgs.iotData,
                                             getCurrentSeason(predArgs.month))
    /\ UNCHANGED <<predArgs, synthVars, recVars, batVars, engVars, hookVars, wsVars>>

NextPredict == Predict

SpecPredict == InitPredict /\ [][NextPredict]_vars

\* C10: every prediction the Predictor returns has solarEfficiency and
\* windEfficiency in [0,1], loadMultiplier in [0.3,2.5], batteryOptimalCharge
\* in [5,100] % and one of the four recommendations.
C10_PredictionWellFormed ==
    predOut # NoPrediction =>
      /\ predOut.solarEfficiency >= 0 /\ predOut.solarEfficiency <= 10000
      /\ predOut.windEfficiency >= 0 /\ predOut.windEfficiency <= 10000
      /\ predOut.loadMultiplier >= 3000 /\ predOut.loadMultiplier <= 25000
      /\ predOut.batteryOptimalCharge >= 5000
      /\ predOut.batteryOptimalCharge <= 100000
      /\ predOut.recommendation \in Recommendations

\* a summer sample at 60 degrees with a sensor sample: the raw load multiplier
\* is far above 2.5 and the returned one is exactly 2.5
C10_Witness ==
    /\ predOut # NoPrediction
    /\ predArgs.weather.temperature = 600
    /\ predArgs.month = 5
    /\ predArgs.iotData # NoIoT
    /\ predOut.loadMultiplier = 25000

\* C11: the recommendation of every returned prediction is the priority rule
\* applied to the solarEfficiency, windEfficiency and loadMultiplier that the
\* same prediction carries (the clamped values).
C11_RecommendationFromReturnedValues ==
    predOut # NoPrediction =>
      predOut.recommendation =
        generateActionRecommendation(predOut.solarEfficiency, predOut.windEfficiency,
                                     predOut.loadMultiplier)

\* C12: for a sample whose windSpeed is below 3 m/s the predicted
\* windEfficiency is exactly 0.1, whatever the temperature.
C12_CalmWindEfficiency ==
    (predOut # NoPrediction /\ predArgs.weather.windSpeed < 30) =>
      predOut.windEfficiency = 1000

\* C20: the optimal-charge computation never makes the Predictor throw: when
\* the sample has no forecast, or one of the three horizons is missing so that
\* the computation raises, the prediction is returned with batteryOptimalCharge
\* exactly 60 and its other fields as a complete forecast would leave them.
C20_OptimalChargeDefaultsTo60 ==
    (/\ predOut # NoPrediction
     /\ \/ predArgs.weather.forecast = Missing
        \/ \E h \in {"next1h", "next6h", "next24h"} :
              predArgs.weather.forecast[h] = Missing) =>
      LET whole == predictEnergyEfficiency(
                       [predArgs.weather EXCEPT !.forecast = fallbackForecast],
                       predArgs.iotData, getCurrentSeason(predArgs.month))
      IN  /\ predOut.batteryOptimalCharge = 60000
          /\ predOut.solarEfficiency = whole.solarEfficiency
          /\ predOut.windEfficiency = whole.windEfficiency
          /\ predOut.loadMultiplier = whole.loadMultiplier
          /\ predOut.recommendation = whole.recommendation
          /\ predOut.recommendation \in
                {"charge_now", "prepare_for_peak", "discharge_now", "maintain"}

\* a prediction returned for a sample whose forecast lacks the 6-hour horizon,
\* in a season and weather where a complete forecast gives another level
C20_Witness ==
    /\ predOut # NoPrediction
    /\ predArgs.weather.forecast # Missing
    /\ predArgs.weather.forecast.next6h = Missing
    /\ predOut.batteryOptimalCharge = 60000
    /\ predictEnergyEfficiency([predArgs.weather EXCEPT !.forecast = fallbackForecast],
                               predArgs.iotData,
                               getCurrentSeason(predArgs.month)).batteryOptimalCharge
         # 60000

\* C21: with a complete forecast, batteryOptimalCharge follows the three-branch
\* rule, in this order, on the averages over the three horizons of
\* (solar + wind) / 2 and of the load multiplier: below 0.4 average generation
\* min(95, 70 + (1 - avgGen) * 25); else above 1.3 average load
\* min(90, 60 + (avgLoad - 1) * 30); else 60 + (avgGen - avgLoad) * 20 clamped to
\* [40, 80]; the current readings and the sensor sample do not influence it.
C21_OptimalChargeRule ==
    (/\ predOut # NoPrediction
     /\ predArgs.weather.forecast # Missing
     /\ \A h \in {"next1h", "next6h", "next24h"} :
           predArgs.weather.forecast[h] # Missing) =>
      LET season == getCurrentSeason(predArgs.month)
          f == predArgs.weather.forecast
          e == [h \in {"next1h", "next6h", "next24h"} |->
                  calculateSimplifiedEfficiency(f[h], season)]
          gen(h) == (e[h].solarEff + e[h].windEff) \div 2
          avgGen == (gen("next1h") + gen("next6h") + gen("next24h")) \div 3
          avgLoad == (e["next1h"].loadMult + e["next6h"].loadMult
                      + e["next24h"].loadMult) \div 3
          target == predOut.batteryOptimalCharge
          other == predictEnergyEfficiency(
                       [fallbackWeatherData EXCEPT !.forecast = f], NoIoT, season)
      IN  /\ avgGen < 4000 =>
                target = Min(95000, 70000 + ((10000 - avgGen) * 25) \div 10)
          /\ (avgGen >= 4000 /\ avgLoad > 13000) =>
                target = Min(90000, 60000 + (avgLoad - 10000) * 3)
          /\ (avgGen >= 4000 /\ avgLoad <= 13000) =>
                target = Max(40000, Min(80000, 60000 + (avgGen - avgLoad) * 2))
          /\ target = other.batteryOptimalCharge

\* a prediction from a hot, dim panel under an overcast three-horizon forecast:
\* the target is above 90 %, which only the first branch gives
C21_Witness ==
    /\ predOut # NoPrediction
    /\ predArgs.iotData # NoIoT
    /\ predArgs.weather.temperature # fallbackWeatherData.temperature
    /\ predArgs.weather.forecast # Missing
    /\ \A h \in {"next1h", "next6h", "next24h"} :
          predArgs.weather.forecast[h] # Missing
    /\ predOut.batteryOptimalCharge > 90000

(***************************************************************************)
(* generateRealisticWeatherData as a function of the hour, the month and   *)
(* the draws of Math.random().                                             *)
(***************************************************************************)

\* one month of each season
SynthMonths == {1, 5, 8, 10}

\* draws of one call: the cloud, rain and temperature draws low, middle or
\* high, the others in the middle
SynthDraws ==
    { [UniformDraw(5000) EXCEPT !.cloud = c, !.rain = r, !.jitter = j] :
        c \in {0, 5000, 9999}, r \in {0, 9999}, j \in {0, 9999} }

InitWeather ==
    /\ BatteryInit
    /\ EngineInit
    /\ ServiceInit
    /\ HookIdle
    /\ PredictIdle
    /\ RecommendIdle
    /\ synthArgs \in [hour : Hours, month : SynthMonths, d : SynthDraws]
    /\ synthOut = NoSample

\* generateRealisticWeatherData(hour) called in the given month
Synthesize ==
    /\ synthArgs # NoSynthArgs
    /\ synthOut = NoSample
    /\ synthOut' = generateRealisticWeatherData(synthArgs.hour,
                                                getCurrentSeason(synthArgs.month),
                                                synthArgs.d)
    /\ UNCHANGED <<synthArgs, recVars, predVars, batVars, engVars, hookVars, wsVars>>

NextWeather == Synthesize

SpecWeather == InitWeather /\ [][NextWeather]_vars

\* C14: at every hour before 6 or after 19, in every season and for every
\* draw, the sample's condition is clear_night.
C14_ClearNight ==
    (synthOut # NoSample /\ (synthArgs.hour < 6 \/ synthArgs.hour > 19)) =>
      synthOut.condition = "clear_night"

\* 20:00 in the monsoon with a rain draw below 0.3: the drawn condition is
\* rainy and the sample says clear_night
C14_Witness ==
    /\ synthOut # NoSample
    /\ synthArgs.hour = 20
    /\ synthArgs.month = 8
    /\ synthArgs.d.rain = 0
    /\ DrawnCondition("monsoon", RawCloudCover("monsoon", synthArgs.d.cloud),
                      synthArgs.d.rain) = "rainy"
    /\ synthOut.condition = "clear_night"

\* C23: each forecast horizon's temperature is the seasonal daily curve at the
\* current hour shifted by the horizon: for k in {1, 6, 24} it is
\* base + sin((hour + k - 6) / 12 * pi) * range rounded to a tenth, so the
\* next24h temperature varies with the hour as the other two do.
C23_ForecastTemperatureOnCurve ==
    synthOut # NoSample =>
      LET season == getCurrentSeason(synthArgs.month)
          curve(k) == Round(getSeasonalBaseTemperature(season) * 10000
                              + SinHours(synthArgs.hour + k - 6)
                                  * getTemperatureRange(season) * 10, 10000)
      IN  /\ synthOut.forecast.next1h.temperature = curve(1)
          /\ synthOut.forecast.next6h.temperature = curve(6)
          /\ synthOut.forecast.next24h.temperature = curve(24)

(***************************************************************************)
(* The engine driven through its public methods.  result holds the value   *)
(* the most recent call returned (setMode returns nothing).                *)
(***************************************************************************)

\* most generateEnhancedEnergyData calls made in one run
MaxTicks == 2

\* mutant: setMode re-creates the simulator state
setMode_ResetsBattery(level, newMode) == [mode |-> newMode, level |-> 60000]

\* setMode (lines 60-63): the fields of the simulator after the call
setMode(level, newMode) == [mode |-> newMode, level |-> level]

SetMode ==
    \E newMode \in ModeArgs :
        /\ mode' = setMode(batteryLevel, newMode).mode
        /\ batteryLevel' = setMode(batteryLevel, newMode).level
        /\ UNCHANGED <<returned, call, optInRange, predVars, synthVars, recVars, result, ticks, thrown, hookVars, wsVars>>

\* one call of generateEnhancedEnergyData()
Tick ==
    /\ ticks < MaxTicks
    /\ \E i \in EngineInputs, f \in Faults :
         \E r \in {generateEnhancedEnergyData(batteryLevel, mode, i[1], i[2], f)} :
             /\ batteryLevel' = r.level
             /\ result' = r.value
             /\ thrown' = f
             /\ returned' = IF r.called THEN calculateBatteryLevel(r.level) ELSE returned
             /\ call' = IF r.called
                        THEN [pre |-> batteryLevel, energyBalance |-> r.energyBalance,
                              optimalLevel |-> r.value.prediction.batteryOptimalCharge,
                              recommendation |-> r.value.prediction.recommendation]
                        ELSE call
             /\ optInRange' = (optInRange /\ (r.called =>
                                 r.value.prediction.batteryOptimalCharge \in 5000..100000))
             /\ ticks' = ticks + 1
             /\ mode' = mode
             /\ UNCHANGED <<predVars, synthVars, recVars, hookVars, wsVars>>

\* weather samples passed to predictEnergyEfficiency by a caller
EnginePredictWeather ==
    { fallbackWeatherData, [fallbackWeatherData EXCEPT !.forecast = Missing] }

\* one direct call of predictEnergyEfficiency(weather), without sensor data
PredictCall ==
    \E weather \in EnginePredictWeather, month \in EngineMonths :
        /\ result' = [path |-> "prediction", weatherData |-> weather, month |-> month,
                      prediction |-> predictEnergyEfficiency(weather, NoIoT,
                                                             getCurrentSeason(month))]
        /\ UNCHANGED <<batVars, predVars, synthVars, recVars, mode, ticks, thrown, hookVars, wsVars>>

\* argument triples of generateSmartRecommendations: what the last
\* generateEnhancedEnergyData call returned (as updateCurrentData passes it),
\* the same without the prediction, and three absent arguments
RecommendArgs ==
    (IF result.path \in {"normal", "fallback"}
     THEN { [energyData |-> result.energyData, weatherData |-> result.weatherData,
             prediction |-> result.prediction],
            [energyData |-> result.energyData, weatherData |-> result.weatherData,
             prediction |-> Missing] }
     ELSE {})
    \cup { [energyData |-> Missing, weatherData |-> Missing, prediction |-> Missing] }

\* one call of generateSmartRecommendations at some hour of the day
Recommend ==
    \E args \in RecommendArgs, currentHour \in EngineHours :
        /\ result' = [path |-> "recommendations",
                      hour |-> currentHour,
                      mode |-> mode,
                      list |-> generateSmartRecommendations(
                                   args.energyData, args.weatherData, args.prediction,
                                   currentHour, mode)]
        /\ UNCHANGED <<batVars, predVars, synthVars, recVars, mode, ticks, thrown, hookVars, wsVars>>

\* C3: generateEnhancedEnergyData never throws: when the synthesizer or the
\* Predictor throws, or the sample has no forecast, the call returns the fixed
\* fallback record, the default prediction and the current mode.
C3_TickNeverThrows ==
    [][ticks' = ticks + 1 =>
         /\ result'.path \in {"normal", "fallback"}
         /\ thrown' # "none" =>
              /\ result'.path = "fallback"
              /\ result'.energyData.weather = "sunny"
              /\ result'.energyData.temperature = 300
              /\ result'.energyData.battery_soc_percent = 6500
              /\ result'.energyData.solar_gen_kW = 20000
              /\ result'.energyData.wind_gen_kW = 6000
              /\ result'.energyData.load_demand_kW = 18000
              /\ result'.energyData.grid_import_kW = 0
              /\ result'.energyData.grid_export_kW = 8000
              /\ result'.energyData.forecast = "Surplus"
              /\ result'.prediction =
                   [solarEfficiency |-> 8000, windEfficiency |-> 6000,
                    loadMultiplier |-> 10000, batteryOptimalCharge |-> 60000,
                    recommendation |-> "maintain"]
              /\ result'.mode = mode
              /\ mode' = mode]_vars

\* the Predictor threw in offline mode and the fallback came back with a
\* sensor sample
C3_Witness ==
    /\ thrown = "prediction_throws"
    /\ result.path = "fallback"
    /\ result.mode = "offline"
    /\ result.iotData # NoIoT

\* C13: the weather sample every generateEnhancedEnergyData call returns, on
\* the normal and on the fallback path, carries a forecast whose next1h, next6h
\* and next24h entries are all present.
C13_ForecastPresent ==
    result.path \in {"normal", "fallback"} =>
      /\ result.weatherData.forecast # Missing
      /\ DOMAIN result.weatherData.forecast = {"next1h", "next6h", "next24h"}
      /\ \A h \in {"next1h", "next6h", "next24h"} :
           /\ result.weatherData.forecast[h] # Missing
           /\ DOMAIN result.weatherData.forecast[h] =
                {"condition", "temperature", "windSpeed", "cloudCover"}

\* the synthesizer's sample had no forecast, and the sample handed back is the
\* fallback one with its three horizons
C13_Witness ==
    /\ thrown = "no_forecast"
    /\ result.path = "fallback"
    /\ result.weatherData.forecast.next1h.condition = "sunny"
    /\ result.weatherData.forecast.next6h.temperature = 320
    /\ result.weatherData.forecast.next24h.condition = "partly_cloudy"

\* C4: the stored battery level changes only in a generateEnhancedEnergyData
\* call that reaches the battery update, and then by the update rule; setMode,
\* predictEnergyEfficiency and generateSmartRecommendations leave it unchanged,
\* and nothing sets it back to its seed.
C4_OnlyTickChangesBattery ==
    [][batteryLevel' # batteryLevel =>
         /\ ticks' = ticks + 1
         /\ result'.path = "normal"
         /\ call'.pre = batteryLevel
         /\ batteryLevel' = batteryLevelAfter(batteryLevel, call'.energyBalance,
                                              call'.optimalLevel, call'.recommendation)]_vars

\* the level moved away from 60 %, then setMode and generateSmartRecommendations
\* were called and the level is still where the last tick left it
C4_Witness ==
    /\ batteryLevel # 60000
    /\ batteryLevel = batteryLevelAfter(call.pre, call.energyBalance,
                                        call.optimalLevel, call.recommendation)
    /\ mode = "offline"
    /\ result.path = "recommendations"
    /\ result.mode = "offline"

\* C27: a tick that takes the fallback path reports 65 % and leaves the stored
\* level as it was; every failure comes before the battery update, so after a
\* failed tick the stored level is still what the last battery update left (60 %
\* if there was none), and the next normal tick starts its update from it.
C27_FallbackLeavesBattery ==
    /\ [](thrown # "none" =>
            batteryLevel = IF call = NoCall THEN 60000
                           ELSE batteryLevelAfter(call.pre, call.energyBalance,
                                                  call.optimalLevel, call.recommendation))
    /\ [][ticks' = ticks + 1 =>
            IF thrown' # "none"
            THEN /\ result'.path = "fallback"
                 /\ result'.energyData.battery_soc_percent = 6500
                 /\ batteryLevel' = batteryLevel
                 /\ call' = call
            ELSE /\ result'.path = "normal"
                 /\ call'.pre = batteryLevel]_vars

\* a normal tick moved the level away from 60 %, and the failed tick after it
\* reported 65 % and left the level where it was
C27_Witness ==
    /\ ticks = 2
    /\ thrown # "none"
    /\ result.path = "fallback"
    /\ result.energyData.battery_soc_percent = 6500
    /\ call # NoCall
    /\ batteryLevel # 60000 /\ batteryLevel # 65000

\* C28: every tick, normal or fallback, returns a next6h cloud cover of at most
\* 40 % and a next24h temperature of at most 35 degrees, so a list computed
\* from a tick's outputs never holds the heavy-clouds-in-6h entry (which needs
\* more than 70 %) nor the extreme-heat-tomorrow entry (more than 40 degrees).
C28_ForecastAdvisoriesNeverProduced ==
    /\ result.path \in {"normal", "fallback"} =>
          /\ result.weatherData.forecast.next6h.cloudCover <= 400
          /\ result.weatherData.forecast.next24h.temperature <= 350
    /\ result.path = "recommendations" =>
          \A i \in 1..Len(result.list) :
              result.list[i].rule \notin {"heavy_clouds_6h", "extreme_heat_tomorrow"}

\* a list computed before noon from the complete outputs of a normal tick whose
\* record showed less than 60 %: only the forecast kept both rules from firing
C28_Witness ==
    /\ result.path = "recommendations"
    /\ result.hour < 12
    /\ thrown = "none" /\ ticks > 0
    /\ batteryLevel < 60000
    /\ \A i \in 1..Len(result.list) : result.list[i].rule # "safe_mode"

\* C15 as stated: the record never shows import and export both positive; the
\* import is max(0, -balance) and the export max(0, balance) of the one signed
\* balance (generation minus demand), and both are 0 exactly when it is 0.
C15_GridFlowsZeroOnlyAtZeroBalance ==
    result.path \in {"normal", "fallback"} =>
      LET e == result.energyData
          balance == IF result.path = "normal" THEN call.energyBalance
                     ELSE 100 * (e.solar_gen_kW + e.wind_gen_kW - e.load_demand_kW)
          net == (e.grid_export_kW - e.grid_import_kW)
                   - (e.solar_gen_kW + e.wind_gen_kW - e.load_demand_kW)
      IN  /\ ~(e.grid_import_kW > 0 /\ e.grid_export_kW > 0)
          /\ e.grid_import_kW = Round(Max(0, -balance), 100)
          /\ e.grid_export_kW = Round(Max(0, balance), 100)
          /\ net \in -2..2
          /\ (e.grid_import_kW = 0 /\ e.grid_export_kW = 0) <=> (balance = 0)

\* C15, amended: the record never shows import and export both positive; the
\* import is max(0, -balance) and the export max(0, balance), each rounded to
\* 0.01 kW, of the one signed balance (generation minus demand, which the
\* record's own rounded fields reproduce within 0.02 kW), and both are 0 exactly
\* when the balance is smaller than 0.005 kW in magnitude.
C15_GridFlows ==
    result.path \in {"normal", "fallback"} =>
      LET e == result.energyData
          balance == IF result.path = "normal" THEN call.energyBalance
                     ELSE 100 * (e.solar_gen_kW + e.wind_gen_kW - e.load_demand_kW)
          net == (e.grid_export_kW - e.grid_import_kW)
                   - (e.solar_gen_kW + e.wind_gen_kW - e.load_demand_kW)
      IN  /\ ~(e.grid_import_kW > 0 /\ e.grid_export_kW > 0)
          /\ e.grid_import_kW = Round(Max(0, -balance), 100)
          /\ e.grid_export_kW = Round(Max(0, balance), 100)
          /\ net \in -2..2
          /\ (e.grid_import_kW = 0 /\ e.grid_export_kW = 0)
                <=> (balance > -50 /\ balance < 50)

\* a tick whose balance is 0.0024 kW: the record shows neither import nor export
C15_Witness ==
    /\ result.path = "normal"
    /\ call.energyBalance \in 1..49
    /\ result.energyData.grid_import_kW = 0
    /\ result.energyData.grid_export_kW = 0

\* C16: a mode set with setMode shows in the next tick and in no earlier result:
\* every tick returns a sensor sample exactly when the stored mode is offline,
\* its prediction is the Predictor's on the returned weather and that sensor
\* sample (none unless offline), its mode field is the stored mode, and a call
\* that changes the mode leaves the last result as it was.
C16_ModeTakesEffectOnNextTick ==
    /\ [](result.path \in {"normal", "fallback"} =>
            /\ (result.iotData # NoIoT) <=> (result.mode = "offline")
            /\ result.path = "normal" =>
                  result.prediction =
                    predictEnergyEfficiency(result.weatherData, result.iotData,
                        getCurrentSeason(result.energyData.timestamp.month)))
    /\ [][/\ ticks' # ticks => (result'.mode = mode /\ mode' = mode)
          /\ mode' # mode => result' = result]_vars

\* after setMode('offline') a tick returned a sensor sample, reports offline, and
\* its prediction is not the one the weather alone would give
C16_Witness ==
    /\ mode = "offline"
    /\ result.path = "normal"
    /\ result.mode = "offline"
    /\ result.iotData # NoIoT
    /\ result.prediction # predictEnergyEfficiency(result.weatherData, NoIoT,
                               getCurrentSeason(result.energyData.timestamp.month))

\* C17: setMode with a value that is neither 'online' nor 'offline' is rejected
\* at the call: the stored mode is always one of the two, and no tick runs with
\* or reports another one.
C17_InvalidModeRejected ==
    /\ mode \in {"online", "offline"}
    /\ result.path \in {"normal", "fallback"} => result.mode \in {"online", "offline"}

\* C22: on every normal tick at an hour before 6 or after 18 solar_gen_kW is 0
\* whatever the predicted solar efficiency, while wind_gen_kW is 100 times the
\* wind efficiency at every hour; so every record whose weather is clear_night
\* reports zero solar generation.
C22_NoSolarAtNight ==
    result.path = "normal" =>
      LET e == result.energyData
          hour == e.timestamp.hour
      IN  /\ (hour < 6 \/ hour > 18) => e.solar_gen_kW = 0
          /\ e.wind_gen_kW = Round(100 * result.prediction.windEfficiency, 100)
          /\ e.weather = "clear_night" => e.solar_gen_kW = 0

\* a normal tick at 19:00, after the gate closed and before the condition is
\* forced to clear_night: the predicted solar efficiency is positive, the
\* record shows no solar generation and some wind generation
C22_Witness ==
    /\ result.path = "normal"
    /\ result.energyData.timestamp.hour = 19
    /\ result.energyData.weather # "clear_night"
    /\ result.prediction.solarEfficiency > 0
    /\ result.energyData.solar_gen_kW = 0
    /\ result.energyData.wind_gen_kW > 0

(***************************************************************************)
(* generateSmartRecommendations called directly: the arguments are drawn   *)
(* once, then the function is called at any hour and in any mode.          *)
(***************************************************************************)

\* energy records passed: battery below and above 60 %, and none
RecommendEnergy ==
    { [fallbackEnergyData(NearBalanceClock) EXCEPT !.battery_soc_percent = 5000],
      [fallbackEnergyData(NearBalanceClock) EXCEPT !.battery_soc_percent = 7000],
      Missing }

\* weather samples passed: the fallback sample, heavy clouds in 6 h, extreme
\* heat in 24 h, dust, no forecast, and none
RecommendWeather ==
    { fallbackWeatherData,
      [fallbackWeatherData EXCEPT !.forecast.next6h.cloudCover = 800],
      [fallbackWeatherData EXCEPT !.forecast.next24h.temperature = 420],
      [fallbackWeatherData EXCEPT !.condition = "dusty"],
      [fallbackWeatherData EXCEPT !.forecast = Missing],
      Missing }

\* predictions passed: the fallback prediction, strong wind, weak sun, low
\* generation, and none
RecommendPredictions ==
    { fallbackPrediction,
      [fallbackPrediction EXCEPT !.windEfficiency = 9000, !.recommendation = "charge_now"],
      [fallbackPrediction EXCEPT !.solarEfficiency = 2000,
                                 !.recommendation = "prepare_for_peak"],
      [fallbackPrediction EXCEPT !.solarEfficiency = 5000,
                                 !.recommendation = "discharge_now"],
      Missing }

InitRecommend ==
    /\ BatteryInit
    /\ EngineInit
    /\ ServiceInit
    /\ HookIdle
    /\ PredictIdle
    /\ SynthIdle
    /\ recArgs \in [energyData : RecommendEnergy, weatherData : RecommendWeather,
                     prediction : RecommendPredictions]
    /\ recOut = NoList

\* generateSmartRecommendations(energyData, weatherData, prediction) called at
\* some hour on a simulator in some mode
RecommendCall ==
    /\ recArgs # NoRecArgs
    /\ \E currentHour \in EngineHours, theMode \in ModeArgs :
         recOut' = [hour |-> currentHour,
                    mode |-> theMode,
                    list |-> generateSmartRecommendations(
                                 recArgs.energyData, recArgs.weatherData,
                                 recArgs.prediction, currentHour, theMode)]
    /\ UNCHANGED <<recArgs, batVars, predVars, synthVars, engVars, hookVars, wsVars>>

NextRecommend == RecommendCall

SpecRecommend == InitRecommend /\ [][NextRecommend]_vars

\* C18 as stated: the list is never empty; when no rule fired it is exactly the
\* one low-priority 'running efficiently' entry, and that entry is absent when
\* a rule fired; null arguments included.
C18_DefaultEntryWheneverNoRuleFired ==
    recOut # NoList =>
      LET list == recOut.list
          fired == \E i \in DOMAIN list :
                      list[i].rule \notin {"running_efficiently", "safe_mode"}
      IN  /\ Len(list) >= 1
          /\ fired => \A i \in DOMAIN list : list[i].rule # "running_efficiently"
          /\ ~fired => /\ Len(list) = 1
                       /\ list[1].rule = "running_efficiently"
                       /\ list[1].priority = "low"

\* C18, amended: the list is never empty; when no rule fired it is exactly one
\* low-priority entry: 'running efficiently', or 'safe mode' when evaluating the
\* rules raised on a null argument; the 'running efficiently' entry is absent
\* when a rule fired, and 'safe mode' never appears when the record, the sample
\* and the prediction are all given.
C18_NeverEmpty ==
    recOut # NoList =>
      LET list == recOut.list
          fired == \E i \in DOMAIN list :
                      list[i].rule \notin {"running_efficiently", "safe_mode"}
          allGiven == /\ Present(recArgs.energyData)
                      /\ Present(recArgs.weatherData)
                      /\ Present(recArgs.prediction)
      IN  /\ Len(list) >= 1
          /\ fired => \A i \in DOMAIN list : list[i].rule # "running_efficiently"
          /\ ~fired => /\ Len(list) = 1
                       /\ list[1].priority = "low"
                       /\ \/ list[1].rule = "running_efficiently"
                          \/ list[1].rule = "safe_mode" /\ ~allGiven
          /\ allGiven => \A i \in DOMAIN list : list[i].rule # "safe_mode"

\* the fallback record, sample and prediction fire no rule at 19:00: the list is
\* the default entry alone
C18_Witness ==
    /\ recOut # NoList
    /\ recArgs.weatherData = fallbackWeatherData
    /\ recArgs.prediction = fallbackPrediction
    /\ Present(recArgs.energyData)
    /\ Len(recOut.list) = 1
    /\ recOut.list[1].rule = "running_efficiently"
    /\ recOut.list[1].priority = "low"

\* C19: the list is a function of the three arguments alone: two calls with the
\* same record, sample and prediction return equal lists, whatever the hour of
\* the call and the mode of the simulator.
C19_ListDependsOnArgumentsOnly ==
    [][(recOut # NoList /\ recOut' # NoList /\ recArgs' = recArgs)
         => recOut'.list = recOut.list]_vars

(***************************************************************************)
(* The useEnergyData hook (src/unnamed/part_004) driving the shared        *)
(* simulator.  A timer expiry or a click queues a callback; the event loop *)
(* runs one queued callback at a time, each to completion.                 *)
(***************************************************************************)

\* most updates requested of one hook instance, the initial load included
MaxRequests == 3

\* values of SystemMode the mode switch passes
HookModes == {"online", "offline"}

\* clock, draws and fault of the generateEnhancedEnergyData call of one update
HookCalls ==
    { [now |-> [hour |-> 12, month |-> 10], d |-> UniformDraw(5000), fault |-> "none"],
      [now |-> [hour |-> 3, month |-> 5], d |-> UniformDraw(9999),
       fault |-> "prediction_throws"] }

\* history entry of one generateEnhancedEnergyData call that read the level pre
TickRecord(pre, e) ==
    [pre |-> pre, post |-> e.level, called |-> e.called,
     energyBalance |-> e.energyBalance,
     optimalLevel |-> e.value.prediction.batteryOptimalCharge,
     recommendation |-> e.value.prediction.recommendation]

\* lines 88-110 of updateCurrentData: what follows the simulator call e made
\* at level pre
AfterTick(pre, e, c, theMode) ==
    [level |-> e.level,
     ran |-> <<TickRecord(pre, e)>>,
     last |-> e,
     recommendations |-> generateSmartRecommendations(
                             e.value.energyData, e.value.weatherData,
                             e.value.prediction, c.now.hour, theMode)]

\* mutant: the update calls generateEnhancedEnergyData a second time
updateCurrentData_Twice(level, theMode, c) ==
    CHOOSE u \in
        { [AfterTick(e1.level, e, c, theMode) EXCEPT
             !.ran = <<TickRecord(level, e1), TickRecord(e1.level, e)>>] :
          e \in { generateEnhancedEnergyData(e1.level, theMode, c.now, c.d, c.fault) :
                  e1 \in {generateEnhancedEnergyData(level, theMode, c.now, c.d, c.fault)} },
          e1 \in {generateEnhancedEnergyData(level, theMode, c.now, c.d, c.fault)} } : TRUE

\* updateCurrentData (part_004 lines 77-120), which has no await: the level
\* it leaves, the simulator calls it made, and what it hands to setState
updateCurrentData(level, theMode, c) ==
    CHOOSE u \in
        { AfterTick(level, e, c, theMode) :
          e \in {generateEnhancedEnergyData(level, theMode, c.now, c.d, c.fault)} } : TRUE

\* one updateCurrentData() run by trigger `by` while `waiting` other callbacks
\* are queued, on the simulator as the handler left it (level, theMode) and
\* the hook state h
RunUpdate(h, level, theMode, c, by, waiting) ==
    \E u \in {updateCurrentData(level, theMode, c)} :
        /\ batteryLevel' = u.level
        /\ mode' = theMode
        /\ result' = u.last.value
        /\ thrown' = c.fault
        /\ returned' = IF u.last.called THEN calculateBatteryLevel(u.level) ELSE returned
        /\ call' = IF u.last.called
                   THEN [pre |-> u.ran[Len(u.ran)].pre,
                         energyBalance |-> u.last.energyBalance,
                         optimalLevel |-> u.last.value.prediction.batteryOptimalCharge,
                         recommendation |-> u.last.value.prediction.recommendation]
                   ELSE call
        /\ optInRange' = (optInRange /\ (u.last.called =>
                            u.last.value.prediction.batteryOptimalCharge \in 5000..100000))
        /\ ticks' = ticks + Len(u.ran)
        /\ applied' = applied \o [i \in 1..Len(u.ran) |->
                                    [tick |-> u.ran[i], by |-> by, waiting |-> waiting]]
        /\ hook' = [h EXCEPT
                      !.battery_soc_percent = u.last.value.energyData.battery_soc_percent,
                      !.systemMode = u.last.value.mode,
                      !.isLoading = FALSE]
        /\ UNCHANGED <<predVars, synthVars, recVars, wsVars>>

\* first render: the effects of lines 72-74 (setMode), 229-239 (initial load,
\* whose updateCurrentData runs at once) and 241-256 (polling interval)
Mount ==
    /\ ~hook.mounted
    /\ \E autoRefresh \in BOOLEAN, systemMode \in HookModes, c \in HookCalls :
         LET m == setMode(batteryLevel, systemMode)
         IN  /\ RunUpdate([hook EXCEPT !.mounted = TRUE,
                                       !.autoRefresh = autoRefresh,
                                       !.interval = autoRefresh,
                                       !.systemMode = systemMode,
                                       !.fetching = TRUE,
                                       !.requested = 1],
                          m.level, m.mode, c, "initial", Len(tasks))
             /\ tasks' = tasks

\* callbacks waiting in the queue that came from the polling interval
TimerTasks(q) == SelectSeq(q, LAMBDA t : t.kind = "timer")

\* the interval of lines 247-253 expires
TimerExpires ==
    /\ hook.mounted /\ hook.interval
    /\ hook.requested < MaxRequests
    /\ tasks' = Append(tasks, [kind |-> "timer", mode |-> "none"])
    /\ hook' = [hook EXCEPT !.requested = @ + 1]
    /\ UNCHANGED <<batVars, predVars, synthVars, recVars, engVars, applied, wsVars>>

\* the user asks for refresh()
ClickRefresh ==
    /\ hook.mounted
    /\ hook.requested < MaxRequests
    /\ tasks' = Append(tasks, [kind |-> "refresh", mode |-> "none"])
    /\ hook' = [hook EXCEPT !.requested = @ + 1]
    /\ UNCHANGED <<batVars, predVars, synthVars, recVars, engVars, applied, wsVars>>

\* the user asks for setSystemMode(newMode)
ClickMode ==
    /\ hook.mounted
    /\ hook.requested < MaxRequests
    /\ \E newMode \in HookModes :
         tasks' = Append(tasks, [kind |-> "mode", mode |-> newMode])
    /\ hook' = [hook EXCEPT !.requested = @ + 1]
    /\ UNCHANGED <<batVars, predVars, synthVars, recVars, engVars, applied, wsVars>>

\* the interval callback (lines 247-253); forecastToo is the test of line 250
RunTimer ==
    /\ tasks # <<>> /\ Head(tasks).kind = "timer"
    /\ \E c \in HookCalls, forecastToo \in BOOLEAN :
         RunUpdate([hook EXCEPT !.fetching = @ \/ forecastToo],
                   batteryLevel, mode, c, "timer", Len(tasks) - 1)
    /\ tasks' = Tail(tasks)

\* refresh (lines 161-167): updateCurrentData runs at once, the two fetches
\* are awaited
RunRefresh ==
    /\ tasks # <<>> /\ Head(tasks).kind = "refresh"
    /\ \E c \in HookCalls :
         RunUpdate([hook EXCEPT !.fetching = TRUE],
                   batteryLevel, mode, c, "refresh", Len(tasks) - 1)
    /\ tasks' = Tail(tasks)

\* setSystemMode (lines 175-179)
RunSetSystemMode ==
    /\ tasks # <<>> /\ Head(tasks).kind = "mode"
    /\ \E c \in HookCalls :
         LET m == setMode(batteryLevel, Head(tasks).mode)
         IN  RunUpdate([hook EXCEPT !.systemMode = Head(tasks).mode],
                       m.level, m.mode, c, "mode", Len(tasks) - 1)
    /\ tasks' = Tail(tasks)

\* a connection_status message (lines 187-190): the handler only stores the
\* flag; React re-runs the polling effect later, as a callback of its own
WsConnectionStatus ==
    /\ hook.mounted
    /\ \E connected \in BOOLEAN :
         /\ connected # hook.isWebSocketConnected
         /\ hook' = [hook EXCEPT !.isWebSocketConnected = connected]
    /\ UNCHANGED <<batVars, predVars, synthVars, recVars, engVars, tasks, applied, wsVars>>

\* mutant: the effect does not test isWebSocketConnected before it starts the
\* interval
PollingWanted_IgnoresConnection(autoRefresh, isWebSocketConnected) == autoRefresh

\* line 243: whether the effect goes on to setInterval
PollingWanted(autoRefresh, isWebSocketConnected) == autoRefresh /\ ~isWebSocketConnected

\* the polling effect (lines 242-256) runs again because isWebSocketConnected
\* changed: the cleanup of the previous run clears its interval, callbacks of
\* that interval not yet run are dropped, and the body starts a new interval
\* unless line 243 returns
RerunPollingEffect ==
    /\ hook.mounted
    /\ hook.effectConnected # hook.isWebSocketConnected
    /\ hook' = [hook EXCEPT
                  !.effectConnected = hook.isWebSocketConnected,
                  !.interval = PollingWanted(hook.autoRefresh, hook.isWebSocketConnected),
                  !.requested = @ - Len(TimerTasks(tasks))]
    /\ tasks' = SelectSeq(tasks, LAMBDA t : t.kind # "timer")
    /\ UNCHANGED <<batVars, predVars, synthVars, recVars, engVars, applied, wsVars>>

\* an energy_data_update message (lines 193-210) carrying a 50 % reading
WsEnergyDataUpdate ==
    /\ hook.mounted
    /\ hook' = [hook EXCEPT !.battery_soc_percent = 5000]
    /\ UNCHANGED <<batVars, predVars, synthVars, recVars, engVars, tasks, applied, wsVars>>

\* the last awaited getForecastData / getHistoricalData promise settles
FetchSettles ==
    /\ hook.fetching
    /\ hook' = [hook EXCEPT !.fetching = FALSE]
    /\ UNCHANGED <<batVars, predVars, synthVars, recVars, engVars, tasks, applied, wsVars>>

\* the level the history accounts for: each call applied to what the
\* previous one left, starting from the seed
RECURSIVE LevelAfter(_)
LevelAfter(h) ==
    IF h = <<>> THEN 60000
    ELSE LET t == h[Len(h)].tick
         IN  IF t.called
             THEN batteryLevelAfter(LevelAfter(SubSeq(h, 1, Len(h) - 1)), t.energyBalance,
                                    t.optimalLevel, t.recommendation)
             ELSE LevelAfter(SubSeq(h, 1, Len(h) - 1))

\* C5: the updates requested by the initial load, the polling interval, refresh
\* and a mode change are applied one at a time: every requested update is
\* either still queued or ran exactly once, each read the level the previous
\* one wrote, and the level is the one obtained by applying them in sequence.
C5_BatteryAdvanceSerialized ==
    /\ Len(applied) + Len(tasks) = hook.requested
    /\ \A i \in 1..Len(applied) :
         applied[i].tick.pre = IF i = 1 THEN 60000 ELSE applied[i - 1].tick.post
    /\ batteryLevel = LevelAfter(applied)

\* after the initial load a timer expiry and a mode change were queued
\* together; both have run and each lowered the level
C5_Witness ==
    /\ Len(applied) = 3
    /\ applied[1].by = "initial"
    /\ applied[2].by = "timer" /\ applied[2].waiting = 1
    /\ applied[3].by = "mode"
    /\ applied[2].tick.post < applied[2].tick.pre
    /\ applied[3].tick.post < applied[3].tick.pre
    /\ tasks = <<>>

\* C24: polling drives the engine only while the WebSocket is not connected: no
\* update run by the polling interval happens while the last connection_status
\* message said connected; once the effect has run for a disconnected socket
\* the interval is active again (with autoRefresh), and none is active for a
\* connected one.
C24_PollingOnlyWhileDisconnected ==
    /\ [][(ticks' # ticks /\ tasks # <<>> /\ Head(tasks).kind = "timer")
            => ~hook.isWebSocketConnected]_vars
    /\ []((hook.mounted /\ hook.effectConnected = hook.isWebSocketConnected) =>
            (hook.interval <=> (hook.autoRefresh /\ ~hook.isWebSocketConnected)))

(***************************************************************************)
(* WebSocketService, src/src/services/websocketService.ts, on the          *)
(* production path of connect() (lines 70-103).  A socket is named by its  *)
(* position in sockets; the timeout attemptReconnect creates inside the    *)
(* close handler of socket s and the interval startHeartbeat creates       *)
(* inside the open handler of socket s are both named s.  The handlers     *)
(* read and write the fields of the service, never the socket they are     *)
(* attached to.                                                            *)
(***************************************************************************)

\* sockets created in one behaviour
MaxSockets == 3

\* config.reconnectInterval (line 38), in milliseconds
reconnectInterval == 5000

\* limits passed to configure({maxReconnectAttempts: n})
ConfiguredLimits == {2}

\* startHeartbeat (lines 210-217), called by the open handler of socket s
startHeartbeat(svc, tm, s) ==
    [service |-> [svc EXCEPT !.heartbeatTimer = s],
     timers |-> [tm EXCEPT !.intervals = @ \cup {s}]]

\* stopHeartbeat (lines 219-224)
stopHeartbeat(svc, tm) ==
    IF svc.heartbeatTimer # 0
    THEN [service |-> [svc EXCEPT !.heartbeatTimer = 0],
          timers |-> [tm EXCEPT !.intervals = @ \ {svc.heartbeatTimer}]]
    ELSE [service |-> svc, timers |-> tm]

\* mutant: no limit on the number of attempts
attemptReconnect_NoLimit(svc, tm, s) ==
    [service |-> [svc EXCEPT !.reconnectAttempts = @ + 1, !.reconnectTimer = s],
     timers |-> [tm EXCEPT !.timeouts = @ \cup
                   {[by |-> s,
                     delay |-> reconnectInterval * (svc.reconnectAttempts + 1)]}]]

\* attemptReconnect (lines 194-208), called by the close handler of socket s
attemptReconnect(svc, tm, s) ==
    IF svc.reconnectAttempts >= svc.maxReconnectAttempts
    THEN [service |-> svc, timers |-> tm]
    ELSE [service |-> [svc EXCEPT !.reconnectAttempts = @ + 1, !.reconnectTimer = s],
          timers |-> [tm EXCEPT !.timeouts = @ \cup
                        {[by |-> s,
                          delay |-> reconnectInterval * (svc.reconnectAttempts + 1)]}]]

\* the body of connect() (lines 61, 71): the flag is cleared and this.ws is a
\* new socket that is connecting.  givenUp records that disconnect() dropped
\* the socket.
connect(svc, socks) ==
    [service |-> [svc EXCEPT !.isIntentionalDisconnect = FALSE,
                             !.ws = Len(socks) + 1],
     sockets |-> Append(socks, [readyState |-> "CONNECTING", givenUp |-> FALSE])]

\* configure (lines 53-55) with a new limit, before the first connect()
Configure ==
    \E n \in ConfiguredLimits :
        /\ sockets = <<>>
        /\ service' = [service EXCEPT !.maxReconnectAttempts = n]
        /\ UNCHANGED <<batVars, predVars, synthVars, recVars, engVars, hookVars,
                       sockets, timers, emitted>>

\* a caller calls connect()
Connect ==
    /\ Len(sockets) < MaxSockets
    /\ service' = connect(service, sockets).service
    /\ sockets' = connect(service, sockets).sockets
    /\ UNCHANGED <<batVars, predVars, synthVars, recVars, engVars, hookVars,
                   timers, emitted>>

\* a caller calls disconnect() (lines 113-127)
Disconnect ==
    LET stopped == stopHeartbeat([service EXCEPT !.isIntentionalDisconnect = TRUE],
                                 timers)
        svc == stopped.service
        w == svc.ws
    IN  /\ service' = [svc EXCEPT !.reconnectTimer = 0, !.ws = 0]
        /\ timers' = [stopped.timers EXCEPT
                        !.timeouts = {t \in @ : t.by # svc.reconnectTimer}]
        /\ sockets' = IF w = 0 THEN sockets
                      ELSE [sockets EXCEPT
                              ![w].givenUp = TRUE,
                              ![w].readyState =
                                  IF @ = "OPEN" THEN "CLOSING" ELSE @]
        /\ UNCHANGED <<batVars, predVars, synthVars, recVars, engVars, hookVars,
                       emitted>>

\* the connection of socket s is established: onopen (lines 73-79)
SocketOpens ==
    \E s \in 1..Len(sockets) :
        /\ sockets[s].readyState = "CONNECTING"
        /\ sockets' = [sockets EXCEPT ![s].readyState = "OPEN"]
        /\ LET started == startHeartbeat([service EXCEPT !.reconnectAttempts = 0],
                                         timers, s)
           IN  /\ service' = started.service
               /\ timers' = started.timers
        /\ emitted' = [emitted EXCEPT !.status = [connected |-> TRUE, by |-> s]]
        /\ UNCHANGED <<batVars, predVars, synthVars, recVars, engVars, hookVars>>

\* socket s fails to connect, loses its connection or finishes closing:
\* onclose (lines 90-98)
SocketCloses ==
    \E s \in 1..Len(sockets) :
        /\ sockets[s].readyState # "CLOSED"
        /\ sockets' = [sockets EXCEPT ![s].readyState = "CLOSED"]
        /\ LET stopped == stopHeartbeat(service, timers)
               after == IF ~service.isIntentionalDisconnect
                        THEN attemptReconnect(stopped.service, stopped.timers, s)
                        ELSE stopped
           IN  /\ service' = after.service
               /\ timers' = after.timers
        /\ emitted' = [emitted EXCEPT !.status = [connected |-> FALSE, by |-> s]]
        /\ UNCHANGED <<batVars, predVars, synthVars, recVars, engVars, hookVars>>

\* a reconnect timeout expires and its callback calls connect() (lines 203-207)
ReconnectTimerFires ==
    \E t \in timers.timeouts :
        /\ Len(sockets) < MaxSockets
        /\ timers' = [timers EXCEPT !.timeouts = @ \ {t}]
        /\ service' = connect(service, sockets).service
        /\ sockets' = connect(service, sockets).sockets
        /\ UNCHANGED <<batVars, predVars, synthVars, recVars, engVars, hookVars,
                       emitted>>

\* a heartbeat interval fires: send() (lines 154-164) writes to this.ws if it
\* is open and only warns otherwise
HeartbeatFires ==
    \E s \in timers.intervals :
        /\ emitted' = [emitted EXCEPT
                         !.beat = service.ws # 0 /\ sockets[service.ws].readyState = "OPEN"]
        /\ UNCHANGED <<batVars, predVars, synthVars, recVars, engVars, hookVars,
                       service, sockets, timers>>

\* C29: a socket that disconnect() gave up causes nothing afterwards: no step
\* adds a reconnect timeout created by its close handler, starts a heartbeat
\* interval from its open handler, or emits connection_status connected: true
\* on its behalf.
C29_GivenUpSocketStaysSilent ==
    [][\A s \in 1..Len(sockets) :
          sockets[s].givenUp =>
            /\ s \notin (timers'.intervals \ timers.intervals)
            /\ \A t \in timers'.timeouts \ timers.timeouts : t.by # s
            /\ ~(/\ emitted'.status # emitted.status
                 /\ emitted'.status = [connected |-> TRUE, by |-> s])]_vars

Init ==
    /\ BatteryInit /\ PredictIdle /\ SynthIdle /\ RecommendIdle /\ EngineInit /\ HookIdle
    /\ ServiceInit

NextBattery == Advance

SpecBattery == Init /\ [][NextBattery]_vars

Next == SetMode \/ Tick \/ PredictCall \/ Recommend

Spec == Init /\ [][Next]_vars

NextHook ==
    \/ Mount \/ TimerExpires \/ ClickRefresh \/ ClickMode
    \/ RunTimer \/ RunRefresh \/ RunSetSystemMode
    \/ WsConnectionStatus \/ RerunPollingEffect \/ WsEnergyDataUpdate \/ FetchSettles

SpecHook == Init /\ [][NextHook]_vars

NextSocket ==
    \/ Configure \/ Connect \/ Disconnect
    \/ SocketOpens \/ SocketCloses \/ ReconnectTimerFires \/ HeartbeatFires

SpecSocket == Init /\ [][NextSocket]_vars

====
